---- MODULE Spec2Model ----
(***************************************************************************)
(* Model of FinanceDecoder: the worksheet tidy-extractor and its batch     *)
(* driver (src/scraper/tidy_decoder.py) and the dashboard's filtering      *)
(* callbacks (src/dashboard/app.py).                                       *)
(*                                                                         *)
(* Text is a sequence of one-character strings.  A worksheet cell is a     *)
(* tagged record: Blank (NaN), Num(n) or Str(s).  A DataFrame is a         *)
(* sequence of rows (row index r of the code is element r+1), each row a   *)
(* function from absolute column index to cell.                            *)
(***************************************************************************)
EXTENDS Integers, Sequences, FiniteSets, TLC

VARIABLES
    workbooks,    \* main: list returned by find_workbooks, of [path, sheet]
    pc,           \* control position in main / tidy_from_file
    idx,          \* main: 1-based position of the for loop in workbooks
    frames,       \* main: list of non-empty frames (each a list of records)
    skipped,      \* main: the "Skipping ..." lines printed, as <<path, exc>>
    tidy_data,    \* main: the concatenated table written to the CSV
    path,         \* tidy_from_file: argument
    df,           \* tidy_from_file: the sheet read by pd.read_excel
    state,        \* tidy_from_file: local
    city,         \* tidy_from_file: local
    year_row,     \* tidy_from_file: local (0-based row index)
    valid_years,  \* tidy_from_file: local
    valid_cols,   \* tidy_from_file: local
    var_rows,     \* tidy_from_file: local, list of <<label, r>>
    records,      \* tidy_from_file: local / returned frame
    err,          \* exception raised by tidy_from_file, "" when none
    dash_df,      \* dashboard: rows of the tidy CSV restricted to INDICATORS
    state_dd,     \* dashboard: value of the state dropdown (None or a list)
    city_dd,      \* dashboard: value of the city dropdown (None or a list)
    store,        \* dashboard: data of filters-store (None or a dict)
    tab,          \* dashboard: value of indicator-tabs
    page          \* dashboard: what render_page last drew

vars == <<workbooks, pc, idx, frames, skipped, tidy_data, path, df, state,
          city, year_row, valid_years, valid_cols, var_rows, records, err,
          dash_df, state_dd, city_dd, store, tab, page>>

mainVars == <<workbooks, idx, frames, skipped, tidy_data>>
tidyVars == <<path, df, state, city, year_row, valid_years, valid_cols,
              var_rows, records, err>>
dashVars == <<dash_df, state_dd, city_dd, store, tab, page>>

-----------------------------------------------------------------------------
(* Values *)

NoneV == [k |-> "none"]
Blank == [k |-> "blank"]
Num(n) == [k |-> "num", n |-> n]
Str(s) == [k |-> "str", s |-> s]

\* pd.isna(x)
IsNa(x) == x.k = "blank"

Min(a, b) == IF a < b THEN a ELSE b

-----------------------------------------------------------------------------
(* Text helpers, computed as the Python library computes them *)

\* str.find from position i (1-based); 0 when absent
RECURSIVE Find(_, _, _)
Find(s, ch, i) ==
    IF i > Len(s) THEN 0
    ELSE IF s[i] = ch THEN i
    ELSE Find(s, ch, i + 1)

\* str.rfind scanning down from position i; 0 when absent
RECURSIVE RFind(_, _, _)
RFind(s, ch, i) ==
    IF i < 1 THEN 0
    ELSE IF s[i] = ch THEN i
    ELSE RFind(s, ch, i - 1)

\* os.path.basename(p): what follows the last "/"
Basename(p) == SubSeq(p, RFind(p, "/", Len(p)) + 1, Len(p))

\* os.path.splitext(b)[0] for a name without separator: cut at the last dot
\* unless only dots precede it
SplitExtRoot(b) ==
    LET dot == RFind(b, ".", Len(b))
    IN  IF dot > 0 /\ (\E j \in 1..(dot - 1) : b[j] # ".")
        THEN SubSeq(b, 1, dot - 1)
        ELSE b

\* variant: s.rsplit(sep, 1)
SplitOnLast(s, sep) ==
    LET i == RFind(s, sep, Len(s))
    IN  <<SubSeq(s, 1, i - 1), SubSeq(s, i + 1, Len(s))>>

\* s.split(sep, 1) when sep occurs in s
SplitOnce(s, sep) ==
    LET i == Find(s, sep, 1)
    IN  <<SubSeq(s, 1, i - 1), SubSeq(s, i + 1, Len(s))>>

RECURSIVE LStrip(_)
LStrip(s) ==
    IF s # <<>> /\ Head(s) = " " THEN LStrip(Tail(s)) ELSE s

RECURSIVE RStrip(_)
RStrip(s) ==
    IF s # <<>> /\ s[Len(s)] = " " THEN RStrip(SubSeq(s, 1, Len(s) - 1)) ELSE s

\* str.strip()
Strip(s) == RStrip(LStrip(s))

Digits == <<"0", "1", "2", "3", "4", "5", "6", "7", "8", "9">>

IsDigit(ch) == \E d \in 1..Len(Digits) : Digits[d] = ch

DigitVal(ch) == (CHOOSE d \in 1..Len(Digits) : Digits[d] = ch) - 1

RECURSIVE ParseDigits(_, _)
ParseDigits(s, acc) ==
    IF s = <<>> THEN acc
    ELSE ParseDigits(Tail(s), 10 * acc + DigitVal(Head(s)))

\* int(x) succeeds: numbers, and text that is a run of digits once stripped
IntOk(x) ==
    \/ x.k = "num"
    \/ /\ x.k = "str"
       /\ Strip(x.s) # <<>>
       /\ \A i \in 1..Len(Strip(x.s)) : IsDigit(Strip(x.s)[i])

\* int(x) where it succeeds
IntOf(x) == IF x.k = "num" THEN x.n ELSE ParseDigits(Strip(x.s), 0)

-----------------------------------------------------------------------------
(* tidy_from_file, phase by phase *)

FirstYearCol == 4
MinYear == 1900
MaxYear == 2100
LastSegmentRow == 27
BlankRunLimit == 5

\* df.iat[r, c] with 0-based r and absolute column c
Cell(d, r, c) == d[r + 1][c]

\* df.shape[0]
NRows(d) == Len(d)

\* last absolute column index, df.shape[1] - 1
LastCol(d) == CHOOSE c \in DOMAIN d[1] : \A c2 \in DOMAIN d[1] : c2 <= c

\* name_no_ext
NameNoExt(p) == SplitExtRoot(Basename(p))

\* variant: the region is dropped
StateCityNoRegion(p) ==
    LET name_no_ext == NameNoExt(p)
    IN  IF Find(name_no_ext, "_", 1) > 0
        THEN <<NoneV, Str(SplitOnce(name_no_ext, "_")[2])>>
        ELSE <<NoneV, Str(name_no_ext)>>

\* lines 22-25: <<state, city>>
StateCity(p) ==
    LET name_no_ext == NameNoExt(p)
    IN  IF Find(name_no_ext, "_", 1) > 0
        THEN <<Str(SplitOnce(name_no_ext, "_")[1]),
               Str(SplitOnce(name_no_ext, "_")[2])>>
        ELSE <<NoneV, Str(name_no_ext)>>

\* variant: any number counts as a year
IsYearCellAnyNumber(x) == x.k = "num"

\* the lambda of line 31
IsYearCell(x) == x.k = "num" /\ MinYear <= x.n /\ x.n <= MaxYear

\* index of the boolean selection of line 31
HeaderIndex(d) == {r \in 0..(NRows(d) - 1) : IsYearCell(Cell(d, r, FirstYearCol))}

\* .index[0]
FirstHeader(d) == CHOOSE r \in HeaderIndex(d) : \A r2 \in HeaderIndex(d) : r <= r2

\* the lambda of line 55
IsData(x) == ~IsNa(x) /\ ~(x.k = "num" /\ x.n = 0)

\* variant: the segment runs to the last row of the sheet
HasDataWholeColumn(d, yr, c) ==
    LET start_idx == yr + 2
        end_idx   == NRows(d) - 1
    IN  /\ start_idx <= end_idx
        /\ \E r \in start_idx..end_idx : IsData(Cell(d, r, c))

\* lines 46-55 for one column
HasData(d, yr, c) ==
    LET start_idx == yr + 2
        end_idx   == Min(LastSegmentRow, NRows(d) - 1)
    IN  /\ start_idx <= end_idx
        /\ \E r \in start_idx..end_idx : IsData(Cell(d, r, c))

\* lines 39-58: the loop over raw_years from column c on; acc is
\* [err, years, cols]; int(yr) raising ValueError ends the loop
RECURSIVE ValidFrom(_, _, _, _)
ValidFrom(d, yr, c, acc) ==
    IF c > LastCol(d) THEN acc
    ELSE IF IsNa(Cell(d, yr, c)) THEN ValidFrom(d, yr, c + 1, acc)
    ELSE IF ~HasData(d, yr, c) THEN ValidFrom(d, yr, c + 1, acc)
    ELSE IF ~IntOk(Cell(d, yr, c)) THEN [acc EXCEPT !.err = "ValueError"]
    ELSE ValidFrom(d, yr, c + 1,
                   [acc EXCEPT !.years = Append(@, IntOf(Cell(d, yr, c))),
                               !.cols  = Append(@, c)])

ValidYearCols(d, yr) ==
    ValidFrom(d, yr, FirstYearCol, [err |-> "", years |-> <<>>, cols |-> <<>>])

\* line 65 (labels are blank or text)
IsBlankLabel(x) == IsNa(x) \/ (x.k = "str" /\ Strip(x.s) = <<>>)

\* variant: the scan stops one blank row late
RECURSIVE ScanFromLate(_, _, _)
ScanFromLate(d, r, empty_streak) ==
    IF r >= NRows(d) THEN <<>>
    ELSE IF IsBlankLabel(Cell(d, r, 0))
         THEN IF empty_streak + 1 > BlankRunLimit THEN <<>>
              ELSE ScanFromLate(d, r + 1, empty_streak + 1)
    ELSE <<<<Strip(Cell(d, r, 0).s), r>>>> \o ScanFromLate(d, r + 1, 0)

\* lines 63-71: the var_rows appended by the loop from row r on, entered
\* with the current empty_streak
RECURSIVE ScanFrom(_, _, _)
ScanFrom(d, r, empty_streak) ==
    IF r >= NRows(d) THEN <<>>
    ELSE IF IsBlankLabel(Cell(d, r, 0))
         THEN IF empty_streak + 1 >= BlankRunLimit THEN <<>>
              ELSE ScanFrom(d, r + 1, empty_streak + 1)
    ELSE <<<<Strip(Cell(d, r, 0).s), r>>>> \o ScanFrom(d, r + 1, 0)

\* variant: the scan starts at the spacer row
VarRowScanFromSpacer(d, yr) == ScanFrom(d, yr + 1, 0)

\* line 63: the scan starts two rows below the header
VarRowScan(d, yr) == ScanFrom(d, yr + 2, 0)

\* variant: zero values are skipped in every row
RECURSIVE RowRecordsSkipZero(_, _, _, _, _, _, _)
RowRecordsSkipZero(d, st, ci, vr, yrs, cols, i) ==
    IF i > Min(Len(yrs), Len(cols)) THEN <<>>
    ELSE IF IsNa(Cell(d, vr[2], cols[i])) \/ Cell(d, vr[2], cols[i]) = Num(0)
         THEN RowRecordsSkipZero(d, st, ci, vr, yrs, cols, i + 1)
    ELSE <<[state |-> st, city |-> ci, variable |-> vr[1], year |-> yrs[i],
            value |-> Cell(d, vr[2], cols[i])]>>
         \o RowRecordsSkipZero(d, st, ci, vr, yrs, cols, i + 1)

\* lines 76-89: the records appended for one variable row by the inner loop
\* over zip(valid_years, valid_cols) from position i on
RECURSIVE RowRecords(_, _, _, _, _, _, _)
RowRecords(d, st, ci, vr, yrs, cols, i) ==
    IF i > Min(Len(yrs), Len(cols)) THEN <<>>
    ELSE IF IsNa(Cell(d, vr[2], cols[i]))
         THEN RowRecords(d, st, ci, vr, yrs, cols, i + 1)
    ELSE <<[state |-> st, city |-> ci, variable |-> vr[1], year |-> yrs[i],
            value |-> Cell(d, vr[2], cols[i])]>>
         \o RowRecords(d, st, ci, vr, yrs, cols, i + 1)

\* lines 75-89: the records appended by the outer loop over var_rows from
\* position j on
RECURSIVE BuildFrom(_, _, _, _, _, _, _)
BuildFrom(d, st, ci, vrs, yrs, cols, j) ==
    IF j > Len(vrs) THEN <<>>
    ELSE RowRecords(d, st, ci, vrs[j], yrs, cols, 1)
         \o BuildFrom(d, st, ci, vrs, yrs, cols, j + 1)

\* tidy_from_file as one function of its path and sheet: the exception name
\* ("" when it returns) and the returned frame
TidyResult(p, d) ==
    IF HeaderIndex(d) = {} THEN [err |-> "IndexError", records |-> <<>>]
    ELSE LET yr == FirstHeader(d)
             v  == ValidYearCols(d, yr)
             sc == StateCity(p)
         IN  IF v.err # "" THEN [err |-> v.err, records |-> <<>>]
             ELSE [err |-> "",
                   records |-> BuildFrom(d, sc[1], sc[2], VarRowScan(d, yr),
                                         v.years, v.cols, 1)]

\* pd.concat(frames, ignore_index=True)
RECURSIVE Concat(_)
Concat(fs) == IF fs = <<>> THEN <<>> ELSE Head(fs) \o Concat(Tail(fs))

\* the for loop of main moves to the next workbook after a success (line 110)
AfterFrame(i) == i + 1

\* variant: an exception ends the batch
AfterSkipAbort(i) == Len(workbooks) + 1

\* the for loop of main moves to the next workbook after the except clause
AfterSkip(i) == i + 1

-----------------------------------------------------------------------------
(* Input families *)

MaxPre == 1
MaxFill == 26
MaxTail == 1
MaxPathLen == 4
MaxBatch == 3
MaxBody == 11

Txt(c) == Str(<<c>>)

\* a sheet row with label lab in column A, blanks in B-D and ys from column E
MkRow(lab, ys) ==
    [c \in 0..(FirstYearCol + Len(ys) - 1) |->
        IF c = 0 THEN lab
        ELSE IF c < FirstYearCol THEN Blank
        ELSE ys[c - FirstYearCol + 1]]

Rep(row, m) == [i \in 1..m |-> row]

\* rows above the header: column E holds a number outside the year range
JunkRow == MkRow(Txt("T"), <<Num(1899), Num(2021)>>)

HeaderRows ==
    {MkRow(Blank, <<Num(2020), y>>) :
        y \in {Num(2021), Num(2020), Str(<<"2", "0", "2", "1">>), Txt("n"), Blank}}

SpacerRows == {MkRow(Blank, <<Blank, Blank>>), MkRow(Txt("S"), <<Num(7), Num(7)>>)}

FillRows ==
    {MkRow(Blank,    <<Num(0), Num(7)>>),
     MkRow(Txt("A"), <<Num(0), Num(0)>>),
     MkRow(Txt("A"), <<Num(0), Num(7)>>),
     MkRow(Txt("A"), <<Num(7), Blank>>)}

TailRows ==
    {MkRow(Txt("B"),           <<Num(0), Num(7)>>),
     MkRow(Txt("B"),           <<Num(7), Num(0)>>),
     MkRow(Str(<<" ", "A">>),  <<Blank,  Num(7)>>),
     MkRow(Txt(" "),           <<Num(7), Num(7)>>),
     MkRow(Txt("B"),           <<Txt("x"), Num(0)>>)}

FillCounts == {0, 1, 4, 5, MaxFill - 1, MaxFill}

SeqsUpTo(S, n) == UNION {[1..m -> S] : m \in 0..n}

\* sheets: junk rows, an optional header row, a spacer row, a run of equal
\* rows and a short tail
Sheets ==
    {Rep(JunkRow, pre) \o hdr \o <<sp>> \o Rep(fill, m) \o tl :
        pre \in 0..MaxPre,
        hdr \in {<<h>> : h \in HeaderRows} \cup {<<>>},
        sp \in SpacerRows, fill \in FillRows, m \in FillCounts,
        tl \in SeqsUpTo(TailRows, MaxTail)}

\* sheets for the row scan: header, spacer, then any mix of blank-labeled
\* and labeled rows
ScanSheets ==
    {<<MkRow(Blank, <<Num(2020), Num(2021)>>), MkRow(Blank, <<Blank, Blank>>)>>
        \o body :
        body \in UNION {SeqsUpTo({MkRow(blank, <<Num(0), Num(7)>>),
                                  MkRow(Txt("A"), <<Num(7), Num(7)>>)}, MaxBody) :
                        blank \in {Blank, Txt(" ")}}}

SamplePath == <<"A", "Z", "_", "B", "_", "C", ".", "x">>

PathChars == {"A", "_", ".", "/"}

Paths == SeqsUpTo(PathChars, MaxPathLen) \ {<<>>}

\* a small sheet with two variable rows and two retained years
SampleSheet ==
    <<MkRow(Blank, <<Num(2020), Num(2021)>>),
      MkRow(Blank, <<Blank, Blank>>),
      MkRow(Txt("A"), <<Num(7), Num(0)>>),
      MkRow(Txt("B"), <<Blank, Num(7)>>)>>

\* same layout, the label repeated
RepeatSheet ==
    <<MkRow(Blank, <<Num(2020), Num(2021)>>),
      MkRow(Blank, <<Blank, Blank>>),
      MkRow(Txt("A"), <<Num(7), Num(0)>>),
      MkRow(Str(<<"A", " ">>), <<Num(8), Num(7)>>)>>

\* the same year heads two retained columns
TwinYearSheet ==
    <<MkRow(Blank, <<Num(2020), Num(2020)>>),
      MkRow(Blank, <<Blank, Blank>>),
      MkRow(Txt("A"), <<Num(7), Num(8)>>)>>

\* no header row
HeadlessSheet ==
    <<MkRow(Txt("T"), <<Blank, Num(2021)>>),
      MkRow(Txt("A"), <<Num(7), Num(7)>>)>>

\* a header but no data in the segment: an empty frame
EmptySheet ==
    <<MkRow(Blank, <<Num(2020), Num(2021)>>),
      MkRow(Blank, <<Blank, Blank>>),
      MkRow(Txt("A"), <<Num(0), Blank>>)>>

BatchBooks ==
    {[path |-> <<"A", "_", "B", ".", "x">>, sheet |-> SampleSheet],
     [path |-> <<"A", "_", "B", ".", "y">>, sheet |-> SampleSheet],
     [path |-> <<"B", ".", "x">>,           sheet |-> SampleSheet],
     [path |-> <<"D", ".", "x">>,           sheet |-> RepeatSheet],
     [path |-> <<"E", ".", "x">>,           sheet |-> TwinYearSheet],
     [path |-> <<"F", ".", "x">>,           sheet |-> HeadlessSheet],
     [path |-> <<"G", ".", "x">>,           sheet |-> EmptySheet]}

\* find_workbooks returns each file once
Batches ==
    {b \in SeqsUpTo(BatchBooks, MaxBatch) :
        \A i, j \in 1..Len(b) : i # j => b[i].path # b[j].path}

-----------------------------------------------------------------------------
(* Initial states *)

InitLocals ==
    /\ pc = "main"
    /\ idx = 1
    /\ frames = <<>>
    /\ skipped = <<>>
    /\ tidy_data = <<>>
    /\ path = <<>>
    /\ df = <<>>
    /\ state = NoneV
    /\ city = NoneV
    /\ year_row = NoneV
    /\ valid_years = <<>>
    /\ valid_cols = <<>>
    /\ var_rows = <<>>
    /\ records = <<>>
    /\ err = ""

InitDashIdle ==
    /\ dash_df = {}
    /\ state_dd = NoneV
    /\ city_dd = NoneV
    /\ store = NoneV
    /\ tab = ""
    /\ page = NoneV

\* one workbook drawn from the sheet family
Init ==
    /\ workbooks \in {<<[path |-> SamplePath, sheet |-> s]>> : s \in Sheets}
    /\ InitLocals
    /\ InitDashIdle

\* one workbook drawn from the scan family, or one without header
InitScan ==
    /\ workbooks \in {<<[path |-> SamplePath, sheet |-> s]>> :
                        s \in ScanSheets \cup {HeadlessSheet}}
    /\ InitLocals
    /\ InitDashIdle

\* one workbook, its path drawn from the path family
InitName ==
    /\ workbooks \in {<<[path |-> p, sheet |-> s]>> :
                        p \in Paths, s \in {SampleSheet, HeadlessSheet}}
    /\ InitLocals
    /\ InitDashIdle

\* a batch of workbooks
InitMain ==
    /\ workbooks \in Batches
    /\ InitLocals
    /\ InitDashIdle

-----------------------------------------------------------------------------
(* main and tidy_from_file *)

\* lines 104-107
MainStart ==
    /\ pc = "main"
    /\ pc' = IF workbooks = <<>> THEN "exit1" ELSE "loop"
    /\ UNCHANGED <<mainVars, tidyVars, dashVars>>

\* lines 110-112: the loop takes the next workbook and calls tidy_from_file,
\* which reads the sheet (line 28)
CallTidy ==
    /\ pc = "loop"
    /\ idx <= Len(workbooks)
    /\ path' = workbooks[idx].path
    /\ df' = workbooks[idx].sheet
    /\ state' = NoneV
    /\ city' = NoneV
    /\ year_row' = NoneV
    /\ valid_years' = <<>>
    /\ valid_cols' = <<>>
    /\ var_rows' = <<>>
    /\ records' = <<>>
    /\ err' = ""
    /\ pc' = "name"
    /\ UNCHANGED <<mainVars, dashVars>>

\* lines 18-25
ParseName ==
    /\ pc = "name"
    /\ state' = StateCity(path)[1]
    /\ city' = StateCity(path)[2]
    /\ pc' = "header"
    /\ UNCHANGED <<mainVars, path, df, year_row, valid_years, valid_cols,
                   var_rows, records, err, dashVars>>

\* line 31: .index[0] of an empty index raises IndexError
FindHeader ==
    /\ pc = "header"
    /\ IF HeaderIndex(df) = {}
       THEN /\ err' = "IndexError"
            /\ pc' = "exc"
            /\ UNCHANGED year_row
       ELSE /\ year_row' = FirstHeader(df)
            /\ pc' = "years"
            /\ UNCHANGED err
    /\ UNCHANGED <<mainVars, path, df, state, city, valid_years, valid_cols,
                   var_rows, records, dashVars>>

\* lines 33-58
ValidateYears ==
    /\ pc = "years"
    /\ LET v == ValidYearCols(df, year_row)
       IN  IF v.err # ""
           THEN /\ err' = v.err
                /\ pc' = "exc"
                /\ UNCHANGED <<valid_years, valid_cols>>
           ELSE /\ valid_years' = v.years
                /\ valid_cols' = v.cols
                /\ pc' = "rows"
                /\ UNCHANGED err
    /\ UNCHANGED <<mainVars, path, df, state, city, year_row, var_rows,
                   records, dashVars>>

\* lines 60-71
ScanVarRows ==
    /\ pc = "rows"
    /\ var_rows' = VarRowScan(df, year_row)
    /\ pc' = "build"
    /\ UNCHANGED <<mainVars, path, df, state, city, year_row, valid_years,
                   valid_cols, records, err, dashVars>>

\* lines 73-91
BuildRecords ==
    /\ pc = "build"
    /\ records' = BuildFrom(df, state, city, var_rows, valid_years,
                            valid_cols, 1)
    /\ pc' = "ret"
    /\ UNCHANGED <<mainVars, path, df, state, city, year_row, valid_years,
                   valid_cols, var_rows, err, dashVars>>

\* lines 112-114: the frame comes back and is kept unless empty
AppendFrame ==
    /\ pc = "ret"
    /\ frames' = IF records # <<>> THEN Append(frames, records) ELSE frames
    /\ idx' = AfterFrame(idx)
    /\ pc' = "loop"
    /\ UNCHANGED <<workbooks, skipped, tidy_data, tidyVars, dashVars>>

\* lines 115-116: except Exception prints and the loop goes on
SkipWorkbook ==
    /\ pc = "exc"
    /\ skipped' = Append(skipped, <<path, err>>)
    /\ idx' = AfterSkip(idx)
    /\ pc' = "loop"
    /\ UNCHANGED <<workbooks, frames, tidy_data, tidyVars, dashVars>>

\* lines 118-124: after the loop
Finish ==
    /\ pc = "loop"
    /\ idx > Len(workbooks)
    /\ IF frames = <<>>
       THEN /\ pc' = "exit1"
            /\ UNCHANGED tidy_data
       ELSE /\ tidy_data' = Concat(frames)
            /\ pc' = "done"
    /\ UNCHANGED <<workbooks, idx, frames, skipped, tidyVars, dashVars>>

Next ==
    \/ MainStart
    \/ CallTidy
    \/ ParseName
    \/ FindHeader
    \/ ValidateYears
    \/ ScanVarRows
    \/ BuildRecords
    \/ AppendFrame
    \/ SkipWorkbook
    \/ Finish

Spec == Init /\ [][Next]_vars

SpecName == InitName /\ [][Next]_vars

SpecScan == InitScan /\ [][Next]_vars

SpecMain == InitMain /\ [][Next]_vars

-----------------------------------------------------------------------------
(* Dashboard (src/dashboard/app.py) *)

MaxPick == 2

INDICATORS ==
    <<"Net Financial Position",
      "Financial Assets-to-Liabilities",
      "Assets-to-Liabilities",
      "Net Debt-to-Total Revenues",
      "Interest-to-Total Revenues",
      "Net Book-to-Cost of TCA",
      "Govt Transfers-to-Total Revenues">>

IndicatorSet == {INDICATORS[i] : i \in 1..Len(INDICATORS)}

\* ARROW_META[indicator]["invert"]
ARROW_META ==
    [i \in IndicatorSet |->
        i \in {"Net Debt-to-Total Revenues", "Interest-to-Total Revenues",
               "Net Book-to-Cost of TCA"}]

List(v) == [k |-> "list", v |-> v]

\* Python truthiness of a dropdown value: None and [] are falsy
Truthy(x) == x.k = "list" /\ x.v # <<>>

\* x or []
OrEmpty(x) == IF Truthy(x) THEN x.v ELSE <<>>

Elems(q) == {q[i] : i \in 1..Len(q)}

\* df["city"].unique() as a set (sorted() only orders it)
Cities(d) == {d[i].city : i \in 1..Len(d)}

States(d) == {d[i].state : i \in 1..Len(d)}

Obs(st, ci, va, yr, val) ==
    [state |-> st, city |-> ci, variable |-> va, year |-> yr, value |-> val]

\* line 83: rows of the CSV whose variable is an indicator
KeepIndicators(raw) == SelectSeq(raw, LAMBDA row : row.variable \in IndicatorSet)

RawTables ==
    {<<Obs("AZ", "Bullhead", INDICATORS[1], 2020, 5),
       Obs("AZ", "Yuma",     INDICATORS[1], 2020, 6),
       Obs("MB", "Steinbach", INDICATORS[2], 2020, 7),
       Obs("MB", "Steinbach", "Population",  2020, 8)>>,
     <<Obs("MB", "Steinbach", INDICATORS[1], 2021, 7),
       Obs("AZ", "Yuma",      "Population",  2021, 9),
       Obs("AZ", "Yuma",      INDICATORS[4], 2021, 3)>>}

\* a multi-select value: no repeated entry
Picks(S) ==
    {List(q) : q \in {q \in SeqsUpTo(S, MaxPick) :
                        \A i, j \in 1..Len(q) : i # j => q[i] # q[j]}}

\* sync_filter_state (lines 147-148)
SyncFilterState(state_sel, city_sel) ==
    [k |-> "dict", states |-> OrEmpty(state_sel), cities |-> OrEmpty(city_sel)]

\* variant (the v2 logic): states alone select their cities
CitySubsetV2(filters) ==
    LET states == IF filters.k = "dict" THEN filters.states ELSE <<>>
        cities == IF filters.k = "dict" THEN filters.cities ELSE <<>>
    IN  IF states = <<>> /\ cities = <<>> THEN Cities(dash_df)
        ELSE IF cities # <<>> THEN Elems(cities)
        ELSE {dash_df[i].city : i \in {j \in 1..Len(dash_df) :
                                          dash_df[j].state \in Elems(states)}}

\* lines 157-169: the cities to plot
CitySubset(filters) ==
    LET states == IF filters.k = "dict" THEN filters.states ELSE <<>>
        cities == IF filters.k = "dict" THEN filters.cities ELSE <<>>
    IN  IF states = <<>> /\ cities = <<>> THEN Cities(dash_df)
        ELSE IF cities # <<>> THEN Elems(cities)
        ELSE {}

\* render_page (lines 156-205): the rows plotted, whether the "No data"
\* annotation is drawn, and the orientation of the spectrum bar
RenderPage(indicator, filters) ==
    LET sub == SelectSeq(dash_df,
                   LAMBDA row : row.variable = indicator
                                /\ row.city \in CitySubset(filters))
    IN  [k |-> "page", rows |-> sub, no_data |-> (sub = <<>>),
         invert |-> ARROW_META[indicator]]

InitDash ==
    /\ dash_df \in {KeepIndicators(raw) : raw \in RawTables}
    /\ state_dd = NoneV
    /\ city_dd = NoneV
    /\ store = NoneV
    /\ tab = INDICATORS[1]
    /\ page = NoneV
    /\ workbooks = <<>>
    /\ InitLocals

\* page load: Dash fires the callbacks with the layout's initial values
PageLoad ==
    /\ page = NoneV
    /\ store' = SyncFilterState(state_dd, city_dd)
    /\ page' = RenderPage(tab, store')
    /\ UNCHANGED <<dash_df, state_dd, city_dd, tab, pc, mainVars, tidyVars>>

\* the user changes the state dropdown: sync_filter_state, then render_page
ChangeStates ==
    /\ page # NoneV
    /\ \E v \in Picks(States(dash_df)) \cup {NoneV} :
        /\ v # state_dd
        /\ state_dd' = v
        /\ store' = SyncFilterState(v, city_dd)
    /\ page' = RenderPage(tab, store')
    /\ UNCHANGED <<dash_df, city_dd, tab, pc, mainVars, tidyVars>>

\* the user changes the city dropdown: sync_filter_state, then render_page
ChangeCities ==
    /\ page # NoneV
    /\ \E v \in Picks(Cities(dash_df)) \cup {NoneV} :
        /\ v # city_dd
        /\ city_dd' = v
        /\ store' = SyncFilterState(state_dd, v)
    /\ page' = RenderPage(tab, store')
    /\ UNCHANGED <<dash_df, state_dd, tab, pc, mainVars, tidyVars>>

\* the user picks another tab: render_page
ChangeTab ==
    /\ page # NoneV
    /\ \E t \in IndicatorSet :
        /\ t # tab
        /\ tab' = t
        /\ page' = RenderPage(t, store)
    /\ UNCHANGED <<dash_df, state_dd, city_dd, store, pc, mainVars, tidyVars>>

NextDash ==
    \/ PageLoad
    \/ ChangeStates
    \/ ChangeCities
    \/ ChangeTab

SpecDash == InitDash /\ [][NextDash]_vars

-----------------------------------------------------------------------------
(* Vocabulary of the claims, stated on the sheet itself *)

SegmentCeilingRow == 28
ZeroRuleRow == 29

\* 1-indexed worksheet row of a 0-based index
WorksheetRow(r) == r + 1

RowsOf(d) == 0..(Len(d) - 1)

YearColsOf(d) == {c \in DOMAIN d[1] : c >= FirstYearCol}

LabelBlank(d, r) ==
    \/ d[r + 1][0] = Blank
    \/ d[r + 1][0].k = "str" /\ \A i \in 1..Len(d[r + 1][0].s) : d[r + 1][0].s[i] = " "

\* no numeric value in [1900, 2100] anywhere in column E
NoHeader(d) ==
    \A r \in RowsOf(d) :
        ~(d[r + 1][4].k = "num" /\ d[r + 1][4].n >= 1900 /\ d[r + 1][4].n <= 2100)

\* a run of five blank-labeled rows lies between the first data row and r
BlankRunAbove(d, h, r) ==
    \E i \in (h + 2)..(r - 5) : \A j \in i..(i + 4) : LabelBlank(d, j)

\* r is a Variable Row of the sheet whose header row is h
IsVariableRow(d, h, r) ==
    /\ r \in RowsOf(d)
    /\ r >= h + 2
    /\ ~LabelBlank(d, r)
    /\ ~BlankRunAbove(d, h, r)

\* every cell of the data segment of column c is blank or zero
SegmentEmpty(d, h, c) ==
    \A r \in RowsOf(d) :
        (r >= h + 2 /\ WorksheetRow(r) <= SegmentCeilingRow)
            => (d[r + 1][c] = Blank \/ d[r + 1][c] = Num(0))

\* the year heading column c, for a header cell that int() accepts
YearOf(d, h, c) == IntOf(d[h + 1][c])

\* c belongs to the Year Column Set
IsRetained(d, h, c) ==
    /\ c \in YearColsOf(d)
    /\ d[h + 1][c] # Blank
    /\ ~SegmentEmpty(d, h, c)

\* the cells (r, c) of Variable Rows and retained columns that hold a
\* non-blank value and carry the triple <<variable, year, value>> of rec
CellsOf(rec, rows, cols) ==
    {rc \in rows \X cols :
        /\ df[rc[1] + 1][rc[2]] # Blank
        /\ df[rc[1] + 1][rc[2]] = rec.value
        /\ YearOf(df, year_row, rc[2]) = rec.year
        /\ Strip(df[rc[1] + 1][0].s) = rec.variable}

VariableRows == {r \in RowsOf(df) : IsVariableRow(df, year_row, r)}

RetainedCols == {c \in YearColsOf(df) : IsRetained(df, year_row, c)}

Above(rows) == {r \in rows : WorksheetRow(r) < ZeroRuleRow}

Below(rows) == {r \in rows : WorksheetRow(r) >= ZeroRuleRow}

\* number of records carrying the same <<variable, year, value>> as rec
CountLike(recs, rec) ==
    Cardinality({i \in 1..Len(recs) :
        /\ recs[i].variable = rec.variable
        /\ recs[i].year = rec.year
        /\ recs[i].value = rec.value})

\* the triple a cell would be emitted with
TripleAt(r, c) ==
    [variable |-> Strip(df[r + 1][0].s), year |-> YearOf(df, year_row, c),
     value |-> df[r + 1][c]]

Returned == pc = "ret"

-----------------------------------------------------------------------------
(* Claims *)

\* C1: no returned record comes from a variable row at worksheet row 29 or
\* below whose value is exactly 0: every record with value 0 is accounted
\* for by a zero cell of a Variable Row above worksheet row 29.
C1_NoZeroFromRow29On ==
    Returned =>
        LET V == VariableRows
            R == RetainedCols
        IN  \A i \in 1..Len(records) :
                records[i].value = Num(0) =>
                    CountLike(records, records[i])
                        <= Cardinality(CellsOf(records[i], Above(V), R))

DroppedCols ==
    {c \in YearColsOf(df) :
        IntOk(df[year_row + 1][c]) /\ SegmentEmpty(df, year_row, c)}

C4_ScanStopsAtFifthBlank ==
    pc \in {"build", "ret"} =>
        /\ {var_rows[i][2] : i \in 1..Len(var_rows)}
              = {r \in RowsOf(df) : IsVariableRow(df, year_row, r)}
        /\ \A i, j \in 1..Len(var_rows) : i < j => var_rows[i][2] < var_rows[j][2]
        /\ \A i \in 1..Len(var_rows) :
              var_rows[i][1] = Strip(df[var_rows[i][2] + 1][0].s)

\* a labeled row right below four blank-labeled rows was taken, and a
\* labeled row lies below a run of five
C4_Witness ==
    /\ Returned
    /\ \E i \in 1..Len(var_rows) :
          /\ var_rows[i][2] >= year_row + 6
          /\ \A j \in (var_rows[i][2] - 4)..(var_rows[i][2] - 1) : LabelBlank(df, j)
    /\ \E r \in RowsOf(df) :
          /\ ~LabelBlank(df, r)
          /\ r >= year_row + 2
          /\ BlankRunAbove(df, year_row, r)

\* C5: every record comes from a cell (r, c) with r a Variable Row, c in
\* the Year Column Set and a non-blank value; its variable is the trimmed
\* label of r, its year the header value of c (as the integer it denotes),
\* its value the cell.
C5_RecordsComeFromCells ==
    Returned =>
        \A i \in 1..Len(records) :
            \E r \in RowsOf(df), c \in YearColsOf(df) :
                /\ IsVariableRow(df, year_row, r)
                /\ IsRetained(df, year_row, c)
                /\ df[r + 1][c] # Blank
                /\ records[i].variable = Strip(df[r + 1][0].s)
                /\ records[i].year = YearOf(df, year_row, c)
                /\ records[i].value = df[r + 1][c]

\* records were emitted from a sheet whose spacer row is labeled and filled
C5_Witness ==
    /\ Returned
    /\ records # <<>>
    /\ ~LabelBlank(df, year_row + 1)
    /\ df[year_row + 2][FirstYearCol] = Num(7)

\* the name the labels are derived from has an underscore at position i and
\* none before it
FirstUnderscore(n, i) == n[i] = "_" /\ \A j \in 1..(i - 1) : n[j] # "_"

\* C6: region and locality are the two sides of the first underscore of the
\* base name without extension (later underscores stay in the locality);
\* without underscore the region is unset and the locality is the whole
\* name; the extraction does not fail because of the name (it fails only on
\* a sheet without header).
C6_SplitOnFirstUnderscore ==
    /\ pc = "header" => err = ""
    /\ pc = "exc" => NoHeader(df)
    /\ pc \notin {"main", "name"} /\ path # <<>> =>
          LET n == NameNoExt(path)
          IN  IF \E i \in 1..Len(n) : n[i] = "_"
              THEN \E i \in 1..Len(n) :
                      /\ FirstUnderscore(n, i)
                      /\ state = Str(SubSeq(n, 1, i - 1))
                      /\ city = Str(SubSeq(n, i + 1, Len(n)))
              ELSE state = NoneV /\ city = Str(n)

\* a name with two underscores was split and the extraction returned
C6_Witness ==
    /\ Returned
    /\ state.k = "str"
    /\ city.k = "str"
    /\ \E i \in 1..Len(city.s) : city.s[i] = "_"
    /\ records # <<>>

RecordKey(rec) == <<rec.state, rec.city, rec.variable, rec.year>>

NoDuplicateKeys(recs) ==
    \A i, j \in 1..Len(recs) : i # j => RecordKey(recs[i]) # RecordKey(recs[j])

\* the sheet has a header, and no two of its Variable Rows share a trimmed
\* label and no two of its retained columns share a year
DistinctLabelsAndYears(d) ==
    NoHeader(d) \/
    LET h == CHOOSE r \in RowsOf(d) :
                /\ IsYearCell(d[r + 1][4])
                /\ \A r2 \in 0..(r - 1) : ~IsYearCell(d[r2 + 1][4])
    IN  /\ \A r1, r2 \in RowsOf(d) :
              (r1 # r2 /\ IsVariableRow(d, h, r1) /\ IsVariableRow(d, h, r2))
                  => Strip(d[r1 + 1][0].s) # Strip(d[r2 + 1][0].s)
        /\ \A c1, c2 \in YearColsOf(d) :
              (/\ c1 # c2
               /\ IsRetained(d, h, c1) /\ IntOk(d[h + 1][c1])
               /\ IsRetained(d, h, c2) /\ IntOk(d[h + 1][c2]))
                  => YearOf(d, h, c1) # YearOf(d, h, c2)

\* C7 (as stated): the paths of a batch being distinct, the combined table
\* holds no two records with the same (region, locality, variable, year).
C7_NoDuplicateKeys ==
    pc = "done" => NoDuplicateKeys(tidy_data)

\* C7 (amended): when the base names without extension are pairwise
\* distinct and, in every sheet, the Variable Rows have pairwise distinct
\* trimmed labels and the retained columns pairwise distinct years, the
\* combined table holds no two records with the same key.
C7_NoDuplicateKeysDistinctInputs ==
    (/\ pc = "done"
     /\ \A i, j \in 1..Len(workbooks) :
           i # j => NameNoExt(workbooks[i].path) # NameNoExt(workbooks[j].path)
     /\ \A i \in 1..Len(workbooks) : DistinctLabelsAndYears(workbooks[i].sheet))
        => NoDuplicateKeys(tidy_data)

\* two workbooks with distinct names and distinct labels gave records
C7_Witness ==
    /\ pc = "done"
    /\ Len(frames) >= 2
    /\ \A i, j \in 1..Len(workbooks) :
          i # j => NameNoExt(workbooks[i].path) # NameNoExt(workbooks[j].path)
    /\ \A i \in 1..Len(workbooks) : DistinctLabelsAndYears(workbooks[i].sheet)

\* the records of the workbooks of ws whose extraction succeeds, in order
RECURSIVE ExpectedTable(_)
ExpectedTable(ws) ==
    IF ws = <<>> THEN <<>>
    ELSE TidyResult(Head(ws).path, Head(ws).sheet).records \o ExpectedTable(Tail(ws))

\* the workbooks of ws whose extraction fails, in order
FailingPaths(ws) ==
    LET failing == SelectSeq(ws, LAMBDA w : TidyResult(w.path, w.sheet).err # "")
    IN  [i \in 1..Len(failing) |-> failing[i].path]

\* C8: a workbook whose extraction fails is skipped and the batch goes on:
\* at the end every failing workbook has been reported, and the combined
\* table holds exactly the records of the workbooks that succeeded (main
\* exits without a table only when there are none).
C8_FailureSkipsOneWorkbook ==
    (pc \in {"done", "exit1"} /\ workbooks # <<>>) =>
        /\ [i \in 1..Len(skipped) |-> skipped[i][1]] = FailingPaths(workbooks)
        /\ tidy_data = ExpectedTable(workbooks)
        /\ pc = "exit1" <=> ExpectedTable(workbooks) = <<>>

\* the first workbook failed, a later one gave the table
C8_Witness ==
    /\ pc = "done"
    /\ Len(workbooks) = MaxBatch
    /\ skipped # <<>>
    /\ skipped[1][1] = workbooks[1].path
    /\ tidy_data # <<>>

Selected(dd) == dd.k = "list" /\ dd.v # <<>>

RowsFor(indicator, cities) ==
    SelectSeq(dash_df, LAMBDA row : row.variable = indicator /\ row.city \in cities)

\* C9: for the selected indicator the page plots all cities when no state
\* and no city is selected, the selected cities whenever a city is selected,
\* and nothing but the "No data" placeholder when only states are selected.
C9_FilteringLogic ==
    page # NoneV =>
        /\ (~Selected(state_dd) /\ ~Selected(city_dd))
              => page.rows = SelectSeq(dash_df, LAMBDA row : row.variable = tab)
        /\ Selected(city_dd)
              => page.rows = RowsFor(tab, {city_dd.v[i] : i \in 1..Len(city_dd.v)})
        /\ (Selected(state_dd) /\ ~Selected(city_dd))
              => (page.rows = <<>> /\ page.no_data)
        /\ page.no_data <=> page.rows = <<>>

\* only states are selected, for an indicator and a state that have rows
C9_Witness ==
    /\ page # NoneV
    /\ Selected(state_dd)
    /\ ~Selected(city_dd)
    /\ \E i \in 1..Len(dash_df) :
          /\ dash_df[i].variable = tab
          /\ \E j \in 1..Len(state_dd.v) : dash_df[i].state = state_dd.v[j]

\* C10: for a Variable Row above worksheet row 29 and a retained column a
\* record is emitted exactly when the cell is non-blank, with the cell's
\* value, zero included: every such cell has its record, and no record is
\* left over once the non-blank cells of all Variable Rows are counted.
C10_RecordIffNonBlankAbove29 ==
    Returned =>
        LET V == VariableRows
            R == RetainedCols
        IN  /\ \A r \in Above(V), c \in R :
                  df[r + 1][c] # Blank
                      => CountLike(records, TripleAt(r, c))
                            >= Cardinality(CellsOf(TripleAt(r, c), Above(V), R))
            /\ \A i \in 1..Len(records) :
                  CountLike(records, records[i])
                      <= Cardinality(CellsOf(records[i], Above(V), R))
                            + Cardinality(CellsOf(records[i], Below(V), R))

\* a zero cell of a Variable Row above row 29 in a retained column, emitted
C10_Witness ==
    /\ Returned
    /\ \E r \in Above(VariableRows), c \in RetainedCols :
          /\ df[r + 1][c] = Num(0)
          /\ \E i \in 1..Len(records) :
                /\ records[i].value = Num(0)
                /\ records[i].variable = Strip(df[r + 1][0].s)

====
